---- MODULE Spec2Model ----
(***************************************************************************)
(* State-machine model of the nostr-call signaling / session layer:        *)
(*   CallProvider (src/src/contexts/CallContext.tsx),                      *)
(*   SignalingCoordinator and NostrService (src/src/services/signaling.ts),*)
(*   WebRTCManager and useCallHistory (src/src/hooks/useCallHistory.ts),   *)
(*   IncomingCallPopup (src/src/components/IncomingCallPopup.tsx).         *)
(*                                                                         *)
(* One JavaScript task is one action.  Work that the code queues as a      *)
(* microtask (the 'close' event simple-peer emits after destroy(), the     *)
(* continuation of startCall after initiateCall returns) is kept in the    *)
(* FIFO `microtasks`; while it is non-empty no other action is enabled.    *)
(***************************************************************************)
EXTENDS Integers, Sequences, FiniteSets, TLC

\* ---------------------------------------------------------------- bounds
\* Spec: two call attempts, two history insertions, one remote signal each
MaxCalls == 2
MaxEntries == 2
MaxSignals == 1
\* SpecSignal: one call attempt that receives several remote signals
SoloCalls == 1
SoloEntries == 1
SoloSignals == 2
\* SpecHist: insertions into the call history
MaxInserts == 120
MaxPending == 1
MaxNow == 500
TickMs == 500
\* SpecTransport: calls of sendSignalingMessage, events of the per-peer feed
MaxSends == 2
MaxEvents == 2

\* ------------------------------------------------------- program constants
HistoryCap == 50

Self == "self"
SelfUpper == "SELF"
Peers == {"peerA", "peerB"}
Identities == Peers \cup {Self}
CallTypes == {"audio", "video"}
\* the call type the local user starts calls with
StartCallTypes == {"audio"}
RemoteCallIds == {101, 102}
\* the inbound Offers of the model: sender and CallId
Offers == {[from |-> "peerA", callId |-> 101], [from |-> "peerB", callId |-> 102]}
OfferCallTypes == {"video"}
StartTargets == {Self, "peerA"}
CallIdx == 1..(IF MaxCalls > SoloCalls THEN MaxCalls ELSE SoloCalls)
AllCallIds == CallIdx \cup RemoteCallIds

None == <<>>
Some(x) == <<x>>
Val(o) == o[1]

VARIABLES
  callState,        \* CallProvider: useState<CallState>
  currentSession,   \* CallProvider: useState<CallSession | null>
  localStream,      \* CallProvider: useState<MediaStream | null>  (0 = null)
  remoteStream,     \* CallProvider: useState<MediaStream | null>  (0 = null)
  incomingCall,     \* CallProvider: useState<IncomingCallData | null>
  sig,              \* SignalingCoordinator: currentCallId, unsubscribeSignaling
  subscriptions,    \* NostrService.subscriptions (keys of live subscriptions)
  rtc,              \* WebRTCManager: peer, localStream, remoteStream
  calls,            \* one record per startCall / answerCall invocation
  history,          \* localStorage 'nostr-call-history'
  sent,             \* messages published by the last task (sendSignalingMessage)
  microtasks,       \* queued microtasks
  pendingSend,      \* hangup / reject awaiting the network publish
  ringTimer,        \* IncomingCallPopup 45 s auto-reject timer
  nextCall,         \* number of startCall / answerCall invocations so far
  nextEntry,        \* number of history insertions so far
  now,              \* Date.now()
  last,             \* the operation that produced this state
  scope,            \* how many calls, insertions and signals a run explores
  nostr             \* NostrService: the signer, signed and published events,
                    \* records handed to onMessage by the per-peer feed

vars == <<callState, currentSession, localStream, remoteStream, incomingCall,
          sig, subscriptions, rtc, calls, history, sent, microtasks,
          pendingSend, ringTimer, nextCall, nextEntry, now, last, scope, nostr>>

\* ------------------------------------------------------------ call history

\* Math.round(ms / 1000) for ms >= 0
RoundSeconds(ms) == (ms + 500) \div 1000

TakeFirst(s, n) == IF Len(s) <= n THEN s ELSE SubSeq(s, 1, n)

\* useLocalStorage: the collection the setter's updater receives as `prev`
\* is the collection stored under the key
storedPrev(h) == h

\* variant: the new entry is put behind the stored ones
addCallToHistoryOldestFirst(h, entry, id) ==
  TakeFirst(storedPrev(h) \o <<[entry EXCEPT !.id = id]>>, HistoryCap)

addCallToHistory(h, entry, id) ==
  TakeFirst(<<[entry EXCEPT !.id = id]>> \o storedPrev(h), HistoryCap)

updateHistoryStatus(h, status, callStartTime, t) ==
  IF Len(h) > 0
    THEN [h EXCEPT ![1] = [@ EXCEPT !.status = status,
                                    !.endTime = t,
                                    !.duration = RoundSeconds(t - callStartTime)]]
    ELSE h

Entry(remote, ct, dir, status, start, end, dur) ==
  [id |-> 0, remotePubkey |-> remote, callType |-> ct, direction |-> dir,
   status |-> status, startTime |-> start, endTime |-> end, duration |-> dur]

\* ------------------------------------------------- the state as one record

Cur ==
  [callState |-> callState, currentSession |-> currentSession,
   localStream |-> localStream, remoteStream |-> remoteStream,
   incomingCall |-> incomingCall, sig |-> sig,
   subscriptions |-> subscriptions, rtc |-> rtc, calls |-> calls,
   history |-> history, microtasks |-> microtasks, ringTimer |-> ringTimer]

\* the popup (and with it the auto-reject timer) exists only while
\* incomingCall is set: IncomingCallPopup effect cleanup
Commit(s) ==
  /\ callState' = s.callState
  /\ currentSession' = s.currentSession
  /\ localStream' = s.localStream
  /\ remoteStream' = s.remoteStream
  /\ incomingCall' = s.incomingCall
  /\ sig' = s.sig
  /\ subscriptions' = s.subscriptions
  /\ rtc' = s.rtc
  /\ calls' = s.calls
  /\ history' = s.history
  /\ microtasks' = s.microtasks
  /\ ringTimer' = IF s.incomingCall = None THEN "off" ELSE s.ringTimer

NoCall ==
  [kind |-> "none", remote |-> Self, callType |-> "audio", callId |-> 0,
   callStartTime |-> 0, pc |-> "none", timer |-> "none", peer |-> "none",
   applied |-> <<>>, connected |-> FALSE, stream |-> "none",
   sub |-> "none", entryId |-> 0, emitted |-> 0]

\* ------------------------------------------------------------ WebRTCManager

Task(task, k) == [task |-> task, k |-> k, by |-> ""]

\* simple-peer destroy(): the first call marks the peer and queues the
\* 'close' event as a microtask; later calls do nothing
PeerDestroy(s, k) ==
  IF s.calls[k].peer = "live"
    THEN [s EXCEPT !.calls[k].peer = "destroying", !.calls[k].emitted = 0,
                   !.microtasks = Append(@, Task("close", k))]
    ELSE s

\* variant: the manager keeps its reference to the destroyed peer
WebRTCCleanupKeepsPeer(s) ==
  IF s.rtc.peer # 0 THEN PeerDestroy(s, s.rtc.peer) ELSE s

WebRTCCleanup(s) ==
  LET s1 == IF s.rtc.localStream # 0
              THEN [s EXCEPT !.calls[s.rtc.localStream].stream = "stopped",
                             !.rtc.localStream = 0]
              ELSE s
      s2 == IF s1.rtc.remoteStream # 0
              THEN [s1 EXCEPT !.rtc.remoteStream = 0]
              ELSE s1
  IN IF s2.rtc.peer # 0
       THEN [PeerDestroy(s2, s2.rtc.peer) EXCEPT !.rtc.peer = 0]
       ELSE s2

\* variant: a pre-existing peer is left alone
createPeerKeepsOld(s, k) ==
  [s EXCEPT !.rtc.peer = k, !.calls[k].peer = "live"]

\* createPeer: destroys a pre-existing peer, then creates the new one
createPeer(s, k) ==
  LET s1 == IF s.rtc.peer # 0 THEN PeerDestroy(s, s.rtc.peer) ELSE s
  IN [s1 EXCEPT !.rtc.peer = k, !.calls[k].peer = "live"]

\* signal(): throws 'Peer not initialized' without a peer, otherwise feeds
\* the payload to the current peer
CanSignal(s) == s.rtc.peer # 0

signal(s, kind) ==
  [s EXCEPT !.calls[s.rtc.peer].applied = Append(@, kind)]

\* -------------------------------------------------------------- NostrService

\* the closure returned by subscribeToSignaling: aborts its own request and
\* deletes the map entry of its key
unsubscribe(s, id) ==
  [s EXCEPT !.subscriptions.live = @ \ {id},
            !.subscriptions.map[s.calls[id].remote] = 0,
            !.calls[id].sub = "aborted"]

subscribeToSignaling(s, k) ==
  LET r == s.calls[k].remote
      s1 == IF s.subscriptions.map[r] # 0
              THEN unsubscribe(s, s.subscriptions.map[r]) ELSE s
  IN [s1 EXCEPT !.subscriptions.live = @ \cup {k},
                !.subscriptions.map[r] = k,
                !.calls[k].sub = "live"]

\* ------------------------------------------------------ SignalingCoordinator

\* variant: cleanup cancels the subscription but keeps the CallId
SigCleanupKeepsCallId(s) ==
  IF s.sig.unsubscribeSignaling # 0
    THEN [unsubscribe(s, s.sig.unsubscribeSignaling)
            EXCEPT !.sig.unsubscribeSignaling = 0]
    ELSE s

SigCleanup(s) ==
  LET s1 == IF s.sig.unsubscribeSignaling # 0
              THEN [unsubscribe(s, s.sig.unsubscribeSignaling)
                      EXCEPT !.sig.unsubscribeSignaling = 0]
              ELSE s
  IN [s1 EXCEPT !.sig.currentCallId = 0]

\* ---------------------------------------------------- CallProvider.cleanup

CtxCleanup(s) ==
  [SigCleanup(WebRTCCleanup(s)) EXCEPT
     !.incomingCall = None,
     !.callState = "idle",
     !.currentSession = None,
     !.localStream = 0,
     !.remoteStream = 0]


\* -------------------------------------------------------- contactUtils.ts

\* String.prototype.toLowerCase on the identities of the model
toLowerCase(x) == IF x = SelfUpper THEN Self ELSE x

isSelfCall(targetPubkey, currentUserPubkey) ==
  toLowerCase(targetPubkey) = toLowerCase(currentUserPubkey)

\* ------------------------------------------------------------------- Init

Msg(type, callId, to, ct) ==
  [type |-> type, callId |-> callId, to |-> to, callType |-> ct]

Session(callId, remote, ct, initiator, state, start) ==
  [callId |-> callId, remotePubkey |-> remote, callType |-> ct,
   isInitiator |-> initiator, state |-> state, startTime |-> start]

Op(op, arg) == [op |-> op, arg |-> arg]

Scope(c, e, g) == [calls |-> c, entries |-> e, signals |-> g]

Quiet ==
  /\ callState = "idle"
  /\ currentSession = None
  /\ localStream = 0
  /\ remoteStream = 0
  /\ incomingCall = None
  /\ sig = [currentCallId |-> 0, unsubscribeSignaling |-> 0]
  /\ subscriptions = [live |-> {}, map |-> [r \in Identities |-> 0]]
  /\ rtc = [peer |-> 0, localStream |-> 0, remoteStream |-> 0]
  /\ calls = [k \in CallIdx |-> NoCall]
  /\ history = <<>>
  /\ sent = <<>>
  /\ microtasks = <<>>
  /\ pendingSend = <<>>
  /\ ringTimer = "off"
  /\ nextCall = 0
  /\ nextEntry = 0
  /\ now = 0
  /\ last = Op("init", "")

\* NostrService after construction, with a signer that has (or lacks) NIP-44
Service(nip44) ==
  [nip44 |-> nip44, sends |-> 0, outcome |-> "none", signed |-> <<>>,
   published |-> <<>>, events |-> 0, event |-> None, delivered |-> <<>>,
   offers |-> <<>>, loop |-> "running"]

Init ==
  Quiet /\ scope = Scope(MaxCalls, MaxEntries, MaxSignals) /\ nostr = Service(TRUE)

InitSignal ==
  Quiet /\ scope = Scope(SoloCalls, SoloEntries, SoloSignals) /\ nostr = Service(TRUE)

Idle == microtasks = <<>>

\* -------------------------------------------------- CallProvider.startCall

\* startCall up to its first suspension (await initializeLocalMedia)
StartCallBody(remotePubkey, callType) ==
  LET k == nextCall + 1
      s == Cur
      s1 == [s EXCEPT
               !.calls[k] = [NoCall EXCEPT !.kind = "out",
                                           !.remote = remotePubkey,
                                           !.callType = callType,
                                           !.callStartTime = now,
                                           !.pc = "media",
                                           !.entryId = nextEntry + 1],
               !.history = addCallToHistory(@,
                              Entry(remotePubkey, callType, "outgoing",
                                    "calling", now, -1, -1),
                              nextEntry + 1),
               !.callState = "calling"]
  IN /\ Commit(s1)
     /\ nextCall' = k
     /\ nextEntry' = nextEntry + 1
     /\ sent' = <<>>
     /\ UNCHANGED <<pendingSend, now, scope, nostr>>

startCall(remotePubkey, callType) ==
  /\ Idle
  /\ nextCall < scope.calls
  /\ nextEntry < scope.entries
  /\ StartCallBody(remotePubkey, callType)
  /\ last' = Op("startCall", "")

\* ContactsList.handleCall: the guarded entry point
handleCall(pubkey, callType) ==
  /\ Idle
  /\ nextCall < scope.calls
  /\ nextEntry < scope.entries
  /\ IF isSelfCall(pubkey, Self)
       THEN /\ UNCHANGED <<callState, currentSession, localStream,
                           remoteStream, incomingCall, sig, subscriptions,
                           rtc, calls, history, microtasks,
                           pendingSend, ringTimer, nextCall, nextEntry, now,
                           scope, nostr>>
            /\ sent' = <<>>
            /\ last' = Op("handleCall", "self")
       ELSE /\ StartCallBody(pubkey, callType)
            /\ last' = Op("handleCall", "started")

\* variant: the CallId is set and the subscription made, but no connection
\* is created
initiateCallNoPeer(s, k) ==
  LET s1 == [s EXCEPT !.calls[k].callId = k, !.sig.currentCallId = k]
  IN [subscribeToSignaling(s1, k) EXCEPT !.sig.unsubscribeSignaling = k]

\* SignalingCoordinator.initiateCall
initiateCall(s, k) ==
  LET s1 == [s EXCEPT !.calls[k].callId = k, !.sig.currentCallId = k]
      s2 == [subscribeToSignaling(s1, k) EXCEPT !.sig.unsubscribeSignaling = k]
  IN createPeer(s2, k)

\* SignalingCoordinator.answerCall
sigAnswerCall(s, k) ==
  LET s1 == [s EXCEPT !.sig.currentCallId = s.calls[k].callId]
      s2 == [subscribeToSignaling(s1, k) EXCEPT !.sig.unsubscribeSignaling = k]
  IN signal(createPeer(s2, k), "offer")

\* initializeLocalMedia resolves
MediaGranted(k) ==
  /\ Idle
  /\ calls[k].pc = "media"
  /\ LET s == Cur
         s1 == [s EXCEPT !.rtc.localStream = k,
                         !.calls[k].stream = "live",
                         !.calls[k].pc = "run",
                         !.localStream = k]
         sOut == [initiateCall([s1 EXCEPT !.calls[k].timer = "armed"], k)
                    EXCEPT !.microtasks = Append(@, Task("cont", k))]
         sIn == sigAnswerCall(
                  [s1 EXCEPT !.currentSession =
                       Some(Session(s.calls[k].callId, s.calls[k].remote,
                                    s.calls[k].callType, FALSE, "calling", -1))],
                  k)
     IN Commit(IF calls[k].kind = "out" THEN sOut ELSE sIn)
  /\ last' = Op("mediaGranted", calls[k].kind)
  /\ sent' = <<>> /\ UNCHANGED <<pendingSend, nextCall, nextEntry, now, scope, nostr>>

\* clearTimeout(connectionTimeout) in the callbacks of startCall
clearTimer(s, k) ==
  IF s.calls[k].timer = "armed" THEN [s EXCEPT !.calls[k].timer = "cleared"] ELSE s

\* the update closures of call k: updateHistoryStatus in startCall,
\* updateIncomingHistoryStatus in answerCall
updateStatus(s, k, status, t) ==
  [s EXCEPT !.history = updateHistoryStatus(@, status, s.calls[k].callStartTime, t)]

\* the catch blocks of startCall and answerCall
catchBlock(s, k, t) ==
  LET s1 == [clearTimer(s, k) EXCEPT !.callState = "failed"]
      s2 == IF s.calls[k].kind = "in"
              THEN [s1 EXCEPT !.incomingCall = None] ELSE s1
  IN CtxCleanup(updateStatus(s2, k, "failed", t))

\* initializeLocalMedia rejects (permission denied, no device, ...)
MediaDenied(k) ==
  /\ Idle
  /\ calls[k].pc = "media"
  /\ Commit(catchBlock([Cur EXCEPT !.calls[k].pc = "done"], k, now))
  /\ last' = Op("mediaDenied", calls[k].kind)
  /\ sent' = <<>> /\ UNCHANGED <<pendingSend, nextCall, nextEntry, now, scope, nostr>>

\* startCall after `await initiateCall(...)`: setCurrentSession
StartCallCont ==
  /\ microtasks # <<>>
  /\ Head(microtasks).task = "cont"
  /\ LET k == Head(microtasks).k
         s == [Cur EXCEPT !.microtasks = Tail(@)]
     IN /\ Commit([s EXCEPT !.currentSession =
                      Some(Session(k, s.calls[k].remote, s.calls[k].callType,
                                   TRUE, "calling", -1))])
        /\ last' = Op("cont", "")
  /\ sent' = <<>> /\ UNCHANGED <<pendingSend, nextCall, nextEntry, now, scope, nostr>>

\* the onConnect callbacks
onConnect(s, k, t) ==
  IF s.calls[k].kind = "out"
    THEN [updateStatus([clearTimer(s, k) EXCEPT !.callState = "connected"],
                       k, "connected", t)
            EXCEPT !.currentSession =
              Some(Session(k, s.calls[k].remote, s.calls[k].callType,
                           TRUE, "connected", t))]
    ELSE [s EXCEPT !.callState = "connected",
                   !.currentSession =
                     IF @ = None THEN None
                     ELSE Some([Val(@) EXCEPT !.state = "connected",
                                              !.startTime = t])]

\* the onClose callbacks
onClose(s, k, t) ==
  CtxCleanup(updateStatus(clearTimer(s, k), k, "completed", t))

\* the onError callbacks
onError(s, k, t) ==
  CtxCleanup(updateStatus([clearTimer(s, k) EXCEPT !.callState = "failed"],
                          k, "failed", t))

\* peer.on('close'): WebRTCManager.cleanup, then the coordinator's wrapper
\* (cleanup, onClose)
CloseEvent ==
  /\ microtasks # <<>>
  /\ Head(microtasks).task = "close"
  /\ LET k == Head(microtasks).k
         s == [Cur EXCEPT !.microtasks = Tail(@), !.calls[k].peer = "closed",
                          !.calls[k].applied = <<>>]
     IN /\ Commit(onClose(SigCleanup(WebRTCCleanup(s)), k, now))
        /\ last' = Op("close", Head(microtasks).by)
  /\ sent' = <<>> /\ UNCHANGED <<pendingSend, nextCall, nextEntry, now, scope, nostr>>

\* peer.on('error')
ErrorEvent ==
  /\ microtasks # <<>>
  /\ Head(microtasks).task = "error"
  /\ LET k == Head(microtasks).k
         s == [Cur EXCEPT !.microtasks = Tail(@)]
     IN /\ Commit(onError(s, k, now))
        /\ last' = Op("error", calls[k].kind)
  /\ sent' = <<>> /\ UNCHANGED <<pendingSend, nextCall, nextEntry, now, scope, nostr>>

\* ------------------------------------------------- events of the live peer

RemoteDescribed(c) ==
  IF c.kind = "out" THEN \E i \in 1..Len(c.applied) : c.applied[i] = "answer"
                    ELSE \E i \in 1..Len(c.applied) : c.applied[i] = "offer"

PeerConnect(k) ==
  /\ Idle
  /\ calls[k].peer = "live"
  /\ ~calls[k].connected
  /\ RemoteDescribed(calls[k])
  /\ Commit(onConnect([Cur EXCEPT !.calls[k].connected = TRUE], k, now))
  /\ last' = Op("connect", calls[k].kind)
  /\ sent' = <<>> /\ UNCHANGED <<pendingSend, nextCall, nextEntry, now, scope, nostr>>

PeerStream(k) ==
  /\ Idle
  /\ calls[k].peer = "live"
  /\ calls[k].connected
  /\ rtc.remoteStream # k
  /\ Commit([Cur EXCEPT !.rtc.remoteStream = k, !.remoteStream = k])
  /\ last' = Op("stream", "")
  /\ sent' = <<>> /\ UNCHANGED <<pendingSend, nextCall, nextEntry, now, scope, nostr>>

\* the connection is closed from the other side
PeerRemoteClose(k) ==
  /\ Idle
  /\ calls[k].peer = "live"
  /\ Commit(PeerDestroy(Cur, k))
  /\ last' = Op("remoteClose", "")
  /\ sent' = <<>> /\ UNCHANGED <<pendingSend, nextCall, nextEntry, now, scope, nostr>>

\* unrecoverable connection failure: simple-peer destroys the peer with the
\* error and emits 'error', then 'close'
PeerError(k) ==
  /\ Idle
  /\ calls[k].peer = "live"
  /\ Commit([Cur EXCEPT !.calls[k].peer = "destroying", !.calls[k].emitted = 0,
                        !.microtasks = @ \o <<Task("error", k), Task("close", k)>>])
  /\ last' = Op("peerError", "")
  /\ sent' = <<>> /\ UNCHANGED <<pendingSend, nextCall, nextEntry, now, scope, nostr>>

\* variant: the message carries the coordinator's active CallId instead of
\* the CallId captured when the connection was created
SignalMessageCurrentId(remotePubkey, callId, signalType) ==
  IF signalType = "offer"
    THEN Msg("call-offer", sig.currentCallId, remotePubkey, "video")
  ELSE IF signalType = "answer"
    THEN Msg("call-answer", sig.currentCallId, remotePubkey, "none")
  ELSE Msg("ice-candidate", sig.currentCallId, remotePubkey, "none")

\* SignalingCoordinator.sendWebRTCSignal: the message a local signal becomes
SignalMessage(remotePubkey, callId, signalType) ==
  IF signalType = "offer" THEN Msg("call-offer", callId, remotePubkey, "video")
  ELSE IF signalType = "answer" THEN Msg("call-answer", callId, remotePubkey, "none")
  ELSE Msg("ice-candidate", callId, remotePubkey, "none")

\* the signals a peer generates: its first signal is the session
\* description (the initiator's offer, the answerer's answer to the offer it
\* was given), every later one a trickled candidate
LocalSignals(c) ==
  IF c.emitted > 0 THEN {"candidate"}
  ELSE IF c.kind = "out" THEN {"offer"} ELSE {"answer"}

\* peer.on('signal'): the publish is not awaited; published tells whether
\* sendSignalingMessage succeeded
PeerSignal(k, signalType, published) ==
  /\ Idle
  /\ calls[k].peer = "live"
  /\ signalType \in LocalSignals(calls[k])
  /\ calls[k].emitted < scope.signals
  /\ Commit([Cur EXCEPT !.calls[k].emitted = @ + 1])
  /\ sent' = IF published
               THEN <<SignalMessage(calls[k].remote, calls[k].callId, signalType)>>
               ELSE <<>>
  /\ last' = Op("signal", "")
  /\ UNCHANGED <<pendingSend, nextCall, nextEntry, now, scope, nostr>>

\* ------------------------------- SignalingCoordinator.handleSignalingMessage

MsgTypes == {"call-offer", "call-answer", "ice-candidate", "call-hangup",
             "call-reject"}

SignalKind(type) == IF type = "call-answer" THEN "answer" ELSE "candidate"

\* variant: the CallId of the message is not compared with the active one
handleSignalingMessageAnyId(s, m) ==
  IF s.sig.currentCallId = 0 THEN s
  ELSE IF m.type = "call-offer" THEN s
  ELSE IF m.type \in {"call-answer", "ice-candidate"}
    THEN (IF CanSignal(s) THEN signal(s, SignalKind(m.type)) ELSE s)
  ELSE SigCleanup(s)

\* variant: a candidate that arrives before the answer is dropped
handleSignalingMessageAnswerFirst(s, m) ==
  IF s.sig.currentCallId = 0 THEN s
  ELSE IF m.callId # s.sig.currentCallId THEN s
  ELSE IF m.type = "call-offer" THEN s
  ELSE IF m.type = "call-answer"
    THEN (IF CanSignal(s) THEN signal(s, "answer") ELSE s)
  ELSE IF m.type = "ice-candidate"
    THEN (IF CanSignal(s) /\ RemoteDescribed(s.calls[s.rtc.peer])
            THEN signal(s, "candidate") ELSE s)
  ELSE SigCleanup(s)

\* variant: the CallId is compared only while a CallId is active
handleSignalingMessageNoIdleCheck(s, m) ==
  IF s.sig.currentCallId # 0 /\ m.callId # s.sig.currentCallId THEN s
  ELSE IF m.type = "call-offer" THEN s
  ELSE IF m.type \in {"call-answer", "ice-candidate"}
    THEN (IF CanSignal(s) THEN signal(s, SignalKind(m.type)) ELSE s)
  ELSE SigCleanup(s)

\* the result is the state after the handler; a signal() that throws for
\* lack of a peer rejects the handler's promise and changes nothing
handleSignalingMessage(s, m) ==
  IF s.sig.currentCallId = 0 THEN s
  ELSE IF m.callId # s.sig.currentCallId THEN s
  ELSE IF m.type = "call-offer" THEN s
  ELSE IF m.type \in {"call-answer", "ice-candidate"}
    THEN (IF CanSignal(s) THEN signal(s, SignalKind(m.type)) ELSE s)
  ELSE SigCleanup(s)

\* variant: a failing signal() ends the call in the coordinator
signalFaultCleansUp(s) == SigCleanup(s)

\* webrtcManager.signal throws inside the handler (payload the connection
\* refuses): the handler's promise rejects, the rest of the handler does not
\* run; onMessage does not look at the promise
signalFault(s) == s

Accepted(s, m) ==
  /\ s.sig.currentCallId # 0
  /\ m.callId = s.sig.currentCallId
  /\ m.type \in {"call-answer", "ice-candidate"}
  /\ CanSignal(s)

\* a record of the per-peer subscription reaches the handler
DeliverSignal(type, callId) ==
  /\ Idle
  /\ \E k \in CallIdx : calls[k].sub # "none"
  /\ LET m == [type |-> type, callId |-> callId]
     IN /\ Accepted(Cur, m) => Len(calls[rtc.peer].applied) < scope.signals
        /\ Commit(handleSignalingMessage(Cur, m))
        /\ last' = Op("deliver",
                      IF sig.currentCallId = 0 THEN "inactive"
                      ELSE IF callId # sig.currentCallId THEN "mismatch"
                      ELSE type)
  /\ sent' = <<>> /\ UNCHANGED <<pendingSend, nextCall, nextEntry, now, scope, nostr>>

\* an Answer or IceCandidate with the active CallId whose payload makes
\* signal() throw
DeliverFault(type) ==
  /\ Idle
  /\ \E k \in CallIdx : calls[k].sub # "none"
  /\ Accepted(Cur, [type |-> type, callId |-> sig.currentCallId])
  /\ Commit(signalFault(Cur))
  /\ last' = Op("deliver", "fault")
  /\ sent' = <<>> /\ UNCHANGED <<pendingSend, nextCall, nextEntry, now, scope, nostr>>

\* ------------------------------------ CallProvider: incoming-call listener

\* the message a feed hands to its callback
Received(e) == [type |-> e.type, callId |-> e.callId]

\* NostrService.subscribeToIncomingCalls: the body of the loop for one EVENT
subscribeToIncomingCallsEvent(n, e) ==
  IF ~n.nip44 THEN n
  ELSE IF e.cipher # "good" THEN n
  ELSE IF e.json # "object" THEN n
  ELSE IF e.type = "call-offer"
    THEN [n EXCEPT !.offers = Append(@, Received(e))]
  ELSE n


\* variant: the listener does not look at the current state
onCallOfferAnyState(s, senderPubkey, callId, callType) ==
  [s EXCEPT !.incomingCall = Some([remotePubkey |-> senderPubkey,
                                   callId |-> callId,
                                   callType |-> callType]),
            !.callState = "ringing",
            !.ringTimer = "armed"]

\* variant: the listener only ignores Offers during a call, not while ringing
onCallOfferUnlessInCall(s, senderPubkey, callId, callType) ==
  IF s.callState \in {"calling", "connected"} THEN s
  ELSE onCallOfferAnyState(s, senderPubkey, callId, callType)

onCallOffer(s, senderPubkey, callId, callType) ==
  IF s.callState # "idle" THEN s
  ELSE [s EXCEPT !.incomingCall = Some([remotePubkey |-> senderPubkey,
                                        callId |-> callId,
                                        callType |-> callType]),
                 !.callState = "ringing",
                 !.ringTimer = "armed"]

\* the Offer is the one the pending incoming call came from
IsPending(senderPubkey, callId) ==
  /\ incomingCall # None
  /\ Val(incomingCall).remotePubkey = senderPubkey
  /\ Val(incomingCall).callId = callId

IncomingOffer(senderPubkey, callId, callType) ==
  /\ Idle
  /\ Commit(onCallOffer(Cur, senderPubkey, callId, callType))
  /\ last' = Op("offer",
                IF callState = "idle" THEN "ringing"
                ELSE IF IsPending(senderPubkey, callId) THEN "duplicate"
                ELSE "ignored")
  /\ sent' = <<>> /\ UNCHANGED <<pendingSend, nextCall, nextEntry, now, scope, nostr>>

\* the caller's Hangup for the ringing call arrives on the inbound-offer
\* feed, the only subscription a ringing callee has for it
CallerCancels ==
  /\ Idle
  /\ incomingCall # None
  /\ LET c == Val(incomingCall)
         e == [cipher |-> "good", json |-> "object", type |-> "call-hangup",
               callId |-> c.callId]
         n == subscribeToIncomingCallsEvent(nostr, e)
     IN /\ nostr' = n
        /\ Commit(IF n.offers # nostr.offers
                    THEN onCallOffer(Cur, c.remotePubkey, c.callId, c.callType)
                    ELSE Cur)
  /\ last' = Op("cancel", "")
  /\ sent' = <<>> /\ UNCHANGED <<pendingSend, nextCall, nextEntry, now, scope>>

\* ------------------------------------------------- CallProvider.answerCall

answerCall ==
  /\ Idle
  /\ incomingCall # None
  /\ nextCall < scope.calls
  /\ nextEntry < scope.entries
  /\ LET k == nextCall + 1
         ic == Val(incomingCall)
         s == Cur
     IN /\ Commit([s EXCEPT
               !.calls[k] = [NoCall EXCEPT !.kind = "in",
                                           !.remote = ic.remotePubkey,
                                           !.callType = ic.callType,
                                           !.callId = ic.callId,
                                           !.callStartTime = now,
                                           !.pc = "media",
                                           !.entryId = nextEntry + 1],
               !.history = addCallToHistory(@,
                              Entry(ic.remotePubkey, ic.callType, "incoming",
                                    "connected", now, -1, -1),
                              nextEntry + 1),
               !.incomingCall = None,
               !.callState = "calling"])
        /\ nextCall' = k
        /\ nextEntry' = nextEntry + 1
        /\ last' = Op("answerCall", "")
  /\ sent' = <<>> /\ UNCHANGED <<pendingSend, now, scope, nostr>>

\* ------------------------------------------------- CallProvider.rejectCall

\* rejectCall up to `await signaling.rejectCall(...)`
RejectBody(by) ==
  LET ic == Val(incomingCall)
  IN /\ history' = addCallToHistory(history,
                      Entry(ic.remotePubkey, ic.callType, "incoming",
                            "rejected", now, now, 0),
                      nextEntry + 1)
     /\ nextEntry' = nextEntry + 1
     /\ pendingSend' = Append(pendingSend,
                         [op |-> "reject", to |-> ic.remotePubkey,
                          callId |-> ic.callId, entryId |-> nextEntry + 1,
                          by |-> by])
     /\ UNCHANGED <<callState, currentSession, localStream, remoteStream,
                    incomingCall, sig, subscriptions, rtc, calls,
                    microtasks, nextCall, now, scope, nostr>>
     /\ sent' = <<>>

\* the user declines in the popup
rejectCall ==
  /\ Idle
  /\ incomingCall # None
  /\ Len(pendingSend) < MaxPending
  /\ nextEntry < scope.entries
  /\ RejectBody("user")
  /\ ringTimer' = ringTimer
  /\ last' = Op("rejectCall", "user")

\* IncomingCallPopup: the 45 s timer calls onReject
RingTimeout ==
  /\ Idle
  /\ incomingCall # None
  /\ ringTimer = "armed"
  /\ Len(pendingSend) < MaxPending
  /\ nextEntry < scope.entries
  /\ RejectBody("timer")
  /\ ringTimer' = "fired"
  /\ last' = Op("rejectCall", "timer")

\* ----------------------------------------------------- CallProvider.hangup

\* the 'close' events queued by a teardown that the local hangup started
byHangup(s) ==
  [s EXCEPT !.microtasks =
     [i \in 1..Len(@) |-> IF @[i].task = "close" THEN [@[i] EXCEPT !.by = "hangup"]
                          ELSE @[i]]]

hangup ==
  /\ Idle
  /\ IF currentSession = None \/ sig.currentCallId = 0
       THEN /\ Commit(byHangup(CtxCleanup(Cur)))
            /\ UNCHANGED pendingSend
            /\ last' = Op("hangup", "cleanup")
       ELSE /\ Len(pendingSend) < MaxPending
            /\ pendingSend' = Append(pendingSend,
                                [op |-> "hangup",
                                 to |-> Val(currentSession).remotePubkey,
                                 callId |-> sig.currentCallId, entryId |-> 0,
                                 by |-> "hangup"])
            /\ UNCHANGED <<callState, currentSession, localStream,
                           remoteStream, incomingCall, sig, subscriptions,
                           rtc, calls, history, microtasks, ringTimer>>
            /\ last' = Op("hangup", "send")
  /\ sent' = <<>> /\ UNCHANGED <<nextCall, nextEntry, now, scope, nostr>>

\* ------------------------- the publish of a hangup / reject message settles

Remove(q, i) == SubSeq(q, 1, i - 1) \o SubSeq(q, i + 1, Len(q))

\* variant: the coordinator cleans up after a Reject as it does after a Hangup
sigRejectCallCleans(s) == SigCleanup(s)

\* SignalingCoordinator.rejectCall: builds and sends the Reject, touches no
\* field of the coordinator
sigRejectCall(s) == s

\* variant: the coordinator does not clean up after sending the Hangup
sigHangupNoCleanup(s, published) == s

\* SignalingCoordinator.hangup after `await sendSignalingMessage(...)`:
\* cleanup() when the publish succeeded, the error propagates otherwise
sigHangup(s, published) == IF published THEN SigCleanup(s) ELSE s

SendSettled(i, published) ==
  /\ Idle
  /\ i \in 1..Len(pendingSend)
  /\ LET p == pendingSend[i]
         s == Cur
     IN /\ pendingSend' = Remove(pendingSend, i)
        /\ sent' = IF published
                     THEN <<Msg(IF p.op = "reject" THEN "call-reject"
                                ELSE "call-hangup", p.callId, p.to, "none")>>
                     ELSE <<>>
        /\ Commit(IF p.op = "reject"
                    THEN (IF published
                            THEN [sigRejectCall(s) EXCEPT !.incomingCall = None,
                                                          !.callState = "idle"]
                            ELSE sigRejectCall(s))
                    ELSE byHangup(CtxCleanup(sigHangup(s, published))))
        /\ last' = Op(IF published THEN "sendOk" ELSE "sendFail", p.by)
  /\ UNCHANGED <<nextCall, nextEntry, now, scope, nostr>>

\* the 60 s connection timer of startCall fires
ConnectTimeout(k) ==
  /\ Idle
  /\ calls[k].timer = "armed"
  /\ Commit(CtxCleanup(updateStatus(
              [Cur EXCEPT !.calls[k].timer = "fired", !.callState = "failed"],
              k, "failed", now)))
  /\ last' = Op("connectTimeout", "")
  /\ sent' = <<>> /\ UNCHANGED <<pendingSend, nextCall, nextEntry, now, scope, nostr>>

\* time is observed to pass while a call is connected
Tick ==
  /\ Idle
  /\ callState = "connected"
  /\ now + TickMs <= MaxNow
  /\ now' = now + TickMs
  /\ last' = Op("tick", "")
  /\ sent' = <<>>
  /\ UNCHANGED <<callState, currentSession, localStream, remoteStream,
                 incomingCall, sig, subscriptions, rtc, calls, history,
                 microtasks, pendingSend, ringTimer, nextCall, nextEntry,
                 scope, nostr>>

\* the call ids a delivered record may carry: the id of the active call and
\* the id of one other call (the handler only compares the id for equality)
DeliverIds ==
  LET other == CHOOSE c \in AllCallIds : c # sig.currentCallId
  IN IF sig.currentCallId = 0 THEN {other} ELSE {sig.currentCallId, other}

Next ==
  \/ \E r \in StartTargets, ct \in StartCallTypes : startCall(r, ct)
  \/ \E r \in StartTargets \cup {SelfUpper}, ct \in StartCallTypes :
       handleCall(r, ct)
  \/ \E k \in CallIdx : MediaGranted(k)
  \/ \E k \in CallIdx : MediaDenied(k)
  \/ StartCallCont
  \/ CloseEvent
  \/ ErrorEvent
  \/ \E k \in CallIdx : PeerConnect(k)
  \/ \E k \in CallIdx : PeerStream(k)
  \/ \E k \in CallIdx : PeerRemoteClose(k)
  \/ \E k \in CallIdx : PeerError(k)
  \/ \E k \in CallIdx, t \in {"offer", "answer", "candidate"}, ok \in BOOLEAN :
       PeerSignal(k, t, ok)
  \/ \E t \in MsgTypes, c \in DeliverIds : DeliverSignal(t, c)
  \/ \E t \in {"call-answer", "ice-candidate"} : DeliverFault(t)
  \/ CallerCancels
  \/ \E o \in Offers, ct \in OfferCallTypes : IncomingOffer(o.from, o.callId, ct)
  \/ answerCall
  \/ rejectCall
  \/ RingTimeout
  \/ hangup
  \/ \E i \in 1..MaxPending, ok \in BOOLEAN : SendSettled(i, ok)
  \/ \E k \in CallIdx : ConnectTimeout(k)
  \/ Tick

Spec == Init /\ [][Next]_vars

SpecSignal == InitSignal /\ [][Next]_vars

\* the event loop runs queued microtasks, armed timers fire, and the pending
\* media acquisitions and publishes settle one way or the other
Fairness ==
  /\ WF_vars(StartCallCont)
  /\ WF_vars(CloseEvent)
  /\ WF_vars(ErrorEvent)
  /\ \A k \in CallIdx : WF_vars(MediaGranted(k) \/ MediaDenied(k))
  /\ \A k \in CallIdx : WF_vars(ConnectTimeout(k))
  /\ WF_vars(RingTimeout)
  /\ WF_vars(\E i \in 1..MaxPending, ok \in BOOLEAN : SendSettled(i, ok))

SpecLive == InitSignal /\ [][Next]_vars /\ Fairness

\* ------------------------------------------- the call history on its own

InitHist == Quiet /\ scope = Scope(0, MaxInserts, 0) /\ nostr = Service(TRUE)

\* one addCallToHistory call
HistoryInsert(remotePubkey, callType) ==
  /\ nextEntry < scope.entries
  /\ history' = addCallToHistory(history,
                    Entry(remotePubkey, callType, "outgoing", "calling",
                          now, -1, -1),
                    nextEntry + 1)
  /\ nextEntry' = nextEntry + 1
  /\ last' = Op("addCallToHistory", "")
  /\ UNCHANGED <<callState, currentSession, localStream, remoteStream,
                 incomingCall, sig, subscriptions, rtc, calls, sent,
                 microtasks, pendingSend, ringTimer, nextCall, now, scope, nostr>>

NextHist == \E ct \in StartCallTypes : HistoryInsert("peerA", ct)

SpecHist == InitHist /\ [][NextHist]_vars

\* ------------------------------------------- NostrService on its own

\* recipients as callers pass them: hex, npub, an npub that does not decode
Recipients == {"peerA", "npub1peerA", "npub1bad"}

\* ensureHexPubkey: None when nip19.decode throws
ensureHexPubkey(pubkey) ==
  IF pubkey = "npub1peerA" THEN Some("peerA")
  ELSE IF pubkey = "npub1bad" THEN None
  ELSE Some(pubkey)

Event1004(hexPubkey, message) ==
  [kind |-> 1004, p |-> hexPubkey, type |-> message.type,
   callId |-> message.callId]

SendMessages == {Msg(t, 1, "peerA", "none") : t \in {"call-offer", "call-hangup"}}

\* variant: without NIP-44 the message is signed and published unencrypted
sendSignalingMessagePlain(n, recipientPubkey, message, encryptOk, signOk, publishOk) ==
  LET hex == ensureHexPubkey(recipientPubkey)
      failed == [n EXCEPT !.outcome = "error"]
  IN IF hex = None THEN failed
     ELSE IF n.nip44 /\ ~encryptOk THEN failed
     ELSE IF ~signOk THEN failed
     ELSE LET n1 == [n EXCEPT !.signed = Append(@, Event1004(Val(hex), message))]
          IN IF ~publishOk THEN [n1 EXCEPT !.outcome = "error"]
             ELSE [n1 EXCEPT !.published = Append(@, Event1004(Val(hex), message)),
                             !.outcome = "ok"]

\* NostrService.sendSignalingMessage: every throw inside the try block is
\* rethrown as 'Failed to send signaling message'
sendSignalingMessage(n, recipientPubkey, message, encryptOk, signOk, publishOk) ==
  LET hex == ensureHexPubkey(recipientPubkey)
      failed == [n EXCEPT !.outcome = "error"]
  IN IF hex = None THEN failed
     ELSE IF ~n.nip44 THEN failed
     ELSE IF ~encryptOk THEN failed
     ELSE IF ~signOk THEN failed
     ELSE LET n1 == [n EXCEPT !.signed = Append(@, Event1004(Val(hex), message))]
          IN IF ~publishOk THEN [n1 EXCEPT !.outcome = "error"]
             ELSE [n1 EXCEPT !.published = Append(@, Event1004(Val(hex), message)),
                             !.outcome = "ok"]

\* the events a relay may deliver on the per-peer feed: content that does
\* not decrypt, plaintext that is not JSON, JSON null, and objects with or
\* without 'type' and 'callId' ("" and 0 stand for an absent field)
FeedEvents ==
  {[cipher |-> "garbled", json |-> "object", type |-> "call-answer", callId |-> 101],
   [cipher |-> "good", json |-> "invalid", type |-> "", callId |-> 0],
   [cipher |-> "good", json |-> "null", type |-> "", callId |-> 0]}
  \cup [cipher : {"good"}, json : {"object"},
        type : {"call-offer", "call-answer", "ice-candidate", ""},
        callId : {0, 101}]

\* variant: no validation of the parsed message
subscribeToSignalingEventNoValidation(n, e) ==
  IF ~n.nip44 THEN n
  ELSE IF e.cipher # "good" THEN n
  ELSE IF e.json # "object" THEN n
  ELSE [n EXCEPT !.delivered = Append(@, Received(e))]

\* NostrService.subscribeToSignaling: the body of the loop for one EVENT
subscribeToSignalingEvent(n, e) ==
  IF ~n.nip44 THEN n
  ELSE IF e.cipher # "good" THEN n
  ELSE IF e.json # "object" THEN n
  ELSE IF e.type = "" \/ e.callId = 0 THEN n
  ELSE [n EXCEPT !.delivered = Append(@, Received(e))]

TransportUnchanged ==
  UNCHANGED <<callState, currentSession, localStream, remoteStream,
              incomingCall, sig, subscriptions, rtc, calls, history, sent,
              microtasks, pendingSend, ringTimer, nextCall, nextEntry, now,
              scope>>

SendSignalingMessage(recipientPubkey, message, encryptOk, signOk, publishOk) ==
  /\ nostr.sends < MaxSends
  /\ nostr' = [sendSignalingMessage(nostr, recipientPubkey, message,
                                    encryptOk, signOk, publishOk)
                 EXCEPT !.sends = @ + 1]
  /\ last' = Op("send", recipientPubkey)
  /\ TransportUnchanged

FeedEvent(e) ==
  /\ nostr.loop = "running"
  /\ nostr.events < MaxEvents
  /\ nostr' = [subscribeToSignalingEvent(nostr, e)
                 EXCEPT !.events = @ + 1, !.event = Some(e)]
  /\ last' = Op("feed", e.cipher)
  /\ TransportUnchanged

IncomingEvent(e) ==
  /\ nostr.events < MaxEvents
  /\ nostr' = [subscribeToIncomingCallsEvent(nostr, e)
                 EXCEPT !.events = @ + 1, !.event = Some(e)]
  /\ last' = Op("incoming", e.cipher)
  /\ TransportUnchanged

\* pool.req throws: the outer catch ends the loop
FeedFails ==
  /\ nostr.loop = "running"
  /\ nostr' = [nostr EXCEPT !.loop = "ended"]
  /\ last' = Op("feedFails", "")
  /\ TransportUnchanged

InitTransport ==
  /\ Quiet
  /\ scope = Scope(0, 0, 0)
  /\ \E nip44 \in BOOLEAN : nostr = Service(nip44)

NextTransport ==
  \/ \E r \in Recipients, m \in SendMessages, e \in BOOLEAN, s \in BOOLEAN,
        p \in BOOLEAN : SendSignalingMessage(r, m, e, s, p)
  \/ \E e \in FeedEvents : FeedEvent(e)
  \/ \E e \in FeedEvents : IncomingEvent(e)
  \/ FeedFails

SpecTransport == InitTransport /\ [][NextTransport]_vars

\* ================================================================ properties

HasEntry(h, id) == \E i \in 1..Len(h) : h[i].id = id

EntryById(h, id) == h[CHOOSE i \in 1..Len(h) : h[i].id = id]

EntryCount(h, id) == Cardinality({i \in 1..Len(h) : h[i].id = id})

Ids(h) == [i \in 1..Len(h) |-> h[i].id]

\* C1 (exclusivity): an inbound Offer that reaches the incoming-call listener
\* while callState is not 'idle' changes neither callState nor the pending
\* incoming-call descriptor nor the ring timer, and adds no history entry.
C1_Exclusivity ==
  [][(last'.op = "offer" /\ callState # "idle")
       => /\ callState' = callState
          /\ incomingCall' = incomingCall
          /\ ringTimer' = ringTimer
          /\ history' = history
          /\ nextEntry' = nextEntry]_vars

\* an Offer was ignored during a connected call
C1_Witness ==
  /\ last = Op("offer", "ignored")
  /\ callState = "connected"
  /\ incomingCall = None

\* C2 (CallId isolation): while a CallId is active, handleSignalingMessage
\* leaves the whole state (coordinator, subscriptions, peer, callState,
\* currentSession) as it was for a message of any type whose callId differs
\* from the active one.
C2_CallIdIsolation ==
  sig.currentCallId # 0 =>
    \A type \in MsgTypes, callId \in AllCallIds :
      callId # sig.currentCallId =>
        handleSignalingMessage(Cur, [type |-> type, callId |-> callId]) = Cur

\* a message with a foreign CallId was delivered during a connected call
C2_Witness ==
  /\ last = Op("deliver", "mismatch")
  /\ callState = "connected"
  /\ sig.currentCallId # 0

\* C3 (order tolerance): for an outgoing call with an active CallId and a
\* live connection, the Answer followed by an IceCandidate and the
\* IceCandidate followed by the Answer are both applied in full, in the order
\* of arrival, both leave the connection with its remote description, and
\* the states after onConnect are 'connected' and equal up to that order.
C3_OrderTolerance ==
  \A k \in CallIdx :
    (/\ calls[k].kind = "out"
     /\ calls[k].peer = "live"
     /\ calls[k].callId = sig.currentCallId
     /\ ~calls[k].connected)
    => LET answer == [type |-> "call-answer", callId |-> sig.currentCallId]
           ice == [type |-> "ice-candidate", callId |-> sig.currentCallId]
           s1 == handleSignalingMessage(handleSignalingMessage(Cur, answer), ice)
           s2 == handleSignalingMessage(handleSignalingMessage(Cur, ice), answer)
           c1 == onConnect([s1 EXCEPT !.calls[k].applied = <<>>], k, now)
           c2 == onConnect([s2 EXCEPT !.calls[k].applied = <<>>], k, now)
       IN /\ s1.calls[k].applied = calls[k].applied \o <<"answer", "candidate">>
          /\ s2.calls[k].applied = calls[k].applied \o <<"candidate", "answer">>
          /\ RemoteDescribed(s1.calls[k])
          /\ RemoteDescribed(s2.calls[k])
          /\ c1 = c2
          /\ c1.callState = "connected"

\* an outgoing call connected after the candidate arrived before the answer
C3_Witness ==
  \E k \in CallIdx :
    /\ calls[k].kind = "out"
    /\ calls[k].connected
    /\ calls[k].applied = <<"candidate", "answer">>
    /\ callState = "connected"

Clean(s) ==
  /\ s.callState = "idle"
  /\ s.currentSession = None
  /\ s.localStream = 0
  /\ s.remoteStream = 0
  /\ s.sig.currentCallId = 0
  /\ s.sig.unsubscribeSignaling = 0
  /\ s.rtc.peer = 0

NoActiveCall(s) ==
  /\ Clean(s)
  /\ s.incomingCall = None
  /\ s.rtc.localStream = 0
  /\ s.rtc.remoteStream = 0

C5_SelfCallRejected ==
  /\ \A k \in CallIdx :
       calls[k].kind = "out" => ~isSelfCall(calls[k].remote, Self)
  /\ subscriptions.map[Self] = 0
  /\ \A i \in 1..Len(sent) : ~isSelfCall(sent[i].to, Self)

\* the guarded entry point refused a call to the local identity
C5_Witness ==
  /\ last = Op("handleCall", "self")
  /\ callState = "idle"

\* C6 (history integrity): when the close callback of a call that had
\* connected runs after a local hangup, the history entry created for that
\* call has status 'completed' and duration = endTime - startTime in whole
\* seconds, not negative.
C6_HistoryIntegrity ==
  [][(/\ last'.op = "close"
      /\ last'.arg = "hangup"
      /\ microtasks # <<>>
      /\ calls[Head(microtasks).k].connected)
       => LET id == calls[Head(microtasks).k].entryId
          IN /\ HasEntry(history', id)
             /\ EntryById(history', id).status = "completed"
             /\ EntryById(history', id).endTime >= EntryById(history', id).startTime
             /\ EntryById(history', id).duration =
                  RoundSeconds(EntryById(history', id).endTime
                               - EntryById(history', id).startTime)]_vars

\* a connected call was hung up and its entry is completed with its duration
C6_Witness ==
  /\ last = Op("close", "hangup")
  /\ \E i \in 1..Len(history) :
       /\ history[i].status = "completed"
       /\ history[i].duration = 1

\* C7 (retention cap): after any number of addCallToHistory calls the stored
\* history holds the most recent insertions, newest first, and never more
\* than 50 of them: exactly min(N, 50) entries after N insertions.
C7_RetentionCap ==
  /\ Len(history) <= HistoryCap
  /\ Len(history) = (IF nextEntry < HistoryCap THEN nextEntry ELSE HistoryCap)
  /\ \A i \in 1..Len(history) : history[i].id = nextEntry - i + 1

\* more than 50 insertions were made
C7_Witness ==
  /\ nextEntry > HistoryCap + 1
  /\ Len(history) = HistoryCap
  /\ history[1].id = nextEntry

\* C8 (scenario A): when onConnect of an outgoing call fires, callState
\* becomes 'connected' and the entry created for that call goes from
\* 'calling' to 'connected' in place: same entries, same ids, same order.
C8_ScenarioA ==
  [][\A k \in CallIdx :
       (/\ last'.op = "connect"
        /\ calls[k].kind = "out"
        /\ ~calls[k].connected
        /\ calls'[k].connected)
       => /\ callState' = "connected"
          /\ Ids(history') = Ids(history)
          /\ HasEntry(history, calls[k].entryId)
          /\ EntryById(history, calls[k].entryId).status = "calling"
          /\ EntryById(history', calls[k].entryId).status = "connected"]_vars

\* an outgoing call connected and its entry is 'connected'
C8_Witness ==
  /\ last = Op("connect", "out")
  /\ callState = "connected"
  /\ \E k \in CallIdx :
       /\ calls[k].kind = "out"
       /\ calls[k].connected
       /\ HasEntry(history, calls[k].entryId)
       /\ EntryById(history, calls[k].entryId).status = "connected"

\* C9 (scenario B): an Offer that arrives while idle moves callState to
\* 'ringing'; once the rejectCall started by the ring timer has finished, a
\* Reject has been sent, callState is 'idle', the pending incoming call is
\* cleared and the history holds exactly one entry for the call, with status
\* 'rejected' and duration 0.
C9_RingTimeout ==
  [][/\ (last'.op = "offer" /\ callState = "idle")
          => (callState' = "ringing" /\ incomingCall' # None)
     /\ \A i \in 1..Len(pendingSend) :
          (/\ last'.op \in {"sendOk", "sendFail"}
           /\ last'.arg = "timer"
           /\ pendingSend[i].by = "timer"
           /\ pendingSend' = Remove(pendingSend, i))
          => /\ \E j \in 1..Len(sent') :
                  /\ sent'[j].type = "call-reject"
                  /\ sent'[j].callId = pendingSend[i].callId
             /\ callState' = "idle"
             /\ incomingCall' = None
             /\ EntryCount(history', pendingSend[i].entryId) = 1
             /\ EntryById(history', pendingSend[i].entryId).status = "rejected"
             /\ EntryById(history', pendingSend[i].entryId).duration = 0]_vars

\* the ring timer rejected the call and the Reject was published
C9_Witness ==
  /\ last = Op("sendOk", "timer")
  /\ callState = "idle"
  /\ incomingCall = None

\* C10 (scenario C): when the media acquisition of startCall rejects,
\* callState is 'failed', nothing has been sent, the attempt has no peer
\* connection and its history entry, the only one for the attempt, has
\* status 'failed'.
C10_MediaDenied ==
  [][\A k \in CallIdx :
       (/\ last'.op = "mediaDenied"
        /\ calls[k].kind = "out"
        /\ calls[k].pc = "media"
        /\ calls'[k].pc = "done")
       => /\ callState' = "failed"
          /\ sent' = <<>>
          /\ calls'[k].peer = "none"
          /\ calls'[k].sub = "none"
          /\ EntryCount(history', calls[k].entryId) = 1
          /\ EntryById(history', calls[k].entryId).status = "failed"]_vars

\* the media acquisition of an outgoing call was denied
C10_Witness ==
  /\ last = Op("mediaDenied", "out")
  /\ \E i \in 1..Len(history) : history[i].status = "failed"

\* C11 (scenario D): the first Offer, arriving while idle, moves callState to
\* 'ringing' and sets the pending incoming call; a second Offer with the same
\* sender and CallId that arrives while the first is pending changes neither
\* callState nor the incoming-call descriptor nor the ring timer nor history.
C11_DuplicateOffer ==
  [][/\ (last'.op = "offer" /\ last'.arg = "ringing")
          => /\ callState = "idle"
             /\ callState' = "ringing"
             /\ incomingCall' # None
     /\ (last'.op = "offer" /\ last'.arg = "duplicate")
          => /\ callState' = callState
             /\ incomingCall' = incomingCall
             /\ ringTimer' = ringTimer
             /\ history' = history
             /\ nextEntry' = nextEntry]_vars

\* the duplicate of the pending Offer arrived while ringing
C11_Witness ==
  /\ last = Op("offer", "duplicate")
  /\ callState = "ringing"
  /\ incomingCall # None
  /\ history = <<>>
\* the CallIds of inbound calls that were answered, and of the Reject just sent
HandledIds ==
  {calls[k].callId : k \in {j \in CallIdx : calls[j].kind = "in"}}
    \cup {sent[i].callId : i \in {j \in 1..Len(sent) : sent[j].type = "call-reject"}}

\* C12 (stale-offer guard): an Offer whose CallId was already answered, or
\* whose Reject has just been sent, does not start a new 'ringing' transition
\* when it is delivered again.
C12_StaleOffer ==
  [][(last'.op = "offer" /\ last'.arg = "ringing")
       => Val(incomingCall').callId \notin HandledIds]_vars
\* C13 (connect timeout): when the 60 s timer of an outgoing call fires in
\* 'calling', the call leaves 'calling' for a terminal state, the local media
\* and the peer connection are released and nothing is sent; and when the
\* callbacks the timeout caused have run, the history entry of the call has
\* status 'failed'.
C13_ConnectTimeout ==
  [][\A k \in CallIdx :
       /\ (/\ calls[k].timer = "armed"
           /\ calls'[k].timer = "fired"
           /\ callState = "calling")
          => /\ callState' \in {"failed", "idle"}
             /\ sent' = <<>>
             /\ rtc'.peer = 0
             /\ calls'[k].peer # "live"
             /\ calls'[k].stream # "live"
             /\ microtasks' = <<>> =>
                  EntryById(history', calls[k].entryId).status = "failed"
       /\ (/\ last.op = "connectTimeout"
           /\ calls[k].timer = "fired"
           /\ microtasks # <<>>
           /\ Head(microtasks).k = k
           /\ microtasks' = <<>>)
          => /\ sent' = <<>>
             /\ EntryById(history', calls[k].entryId).status = "failed"]_vars

\* C14 (connection error): when the peer connection of a call in 'calling'
\* reports an error, onError leaves 'calling' for a terminal state and
\* releases the call; and when the onClose that follows the teardown has run,
\* the history entry of the call has status 'failed'.
C14_ConnectionError ==
  [][\A k \in CallIdx :
       /\ (/\ last'.op = "error"
           /\ microtasks # <<>>
           /\ Head(microtasks).k = k
           /\ callState = "calling")
          => /\ callState' \in {"failed", "idle"}
             /\ rtc'.peer = 0
             /\ calls'[k].stream # "live"
             /\ EntryById(history', calls[k].entryId).status = "failed"
       /\ (/\ last.op = "error"
           /\ last'.op = "close"
           /\ microtasks # <<>>
           /\ Head(microtasks).k = k
           /\ microtasks' = <<>>)
          => EntryById(history', calls[k].entryId).status = "failed"]_vars
\* C15 (timer cancellation): the 60 s connection timer of a call fires only
\* while that call is still in 'calling'; once callState has left 'calling'
\* (connect, close, error, local hangup, cleanup) the timer of the call never
\* runs its callback.
C15_TimerCancelled ==
  [][\A k \in CallIdx :
       (calls[k].timer = "armed" /\ calls'[k].timer = "fired")
         => callState = "calling"]_vars
\* C16 (no indefinitely ambiguous state): a call in 'calling', started or
\* answered, eventually reaches 'connected', 'idle' or 'failed', given that
\* armed timers fire and pending media acquisitions and publishes settle.
C16_NoAmbiguousState ==
  (callState = "calling") ~> (callState \in {"connected", "idle", "failed"})
\* C17 (remote termination): when a Hangup or Reject carrying the active
\* CallId is handled during a call in 'calling' or 'connected', the call is
\* torn down in that step: callState is 'idle', the session is cleared and
\* the peer connection and the local media are released.
C17_RemoteTermination ==
  [][(/\ last'.op = "deliver"
      /\ last'.arg \in {"call-hangup", "call-reject"}
      /\ callState \in {"calling", "connected"})
       => /\ callState' = "idle"
          /\ currentSession' = None
          /\ rtc'.peer = 0
          /\ rtc'.localStream = 0
          /\ localStream' = 0]_vars
\* C18 (offer call type): every Offer message that is sent carries the call
\* type of the call attempt it belongs to.
C18_OfferCallType ==
  \A i \in 1..Len(sent) :
    sent[i].type = "call-offer" =>
      \E k \in CallIdx :
        /\ calls[k].kind = "out"
        /\ calls[k].callId = sent[i].callId
        /\ sent[i].callType = calls[k].callType
\* C19 (transport failure): when the publish of a signaling message of an
\* outgoing call in 'calling' fails, the call leaves 'calling' as failed and
\* its history entry has status 'failed'.
C19_TransportFailure ==
  [][\A k \in CallIdx :
       (/\ last'.op = "signal"
        /\ sent' = <<>>
        /\ calls[k].kind = "out"
        /\ calls[k].peer = "live"
        /\ callState = "calling")
       => /\ callState' \in {"failed", "idle"}
          /\ EntryById(history', calls[k].entryId).status = "failed"]_vars
\* C20 (hangup during media acquisition): when the media acquisition of a
\* call resolves right after the user hung up while it was pending, the late
\* stream is stopped, no connection timer is armed, no peer connection is
\* created, nothing is sent and callState stays 'idle'.
C20_HangupDuringMedia ==
  [][\A k \in CallIdx :
       (/\ last.op = "hangup"
        /\ last.arg = "cleanup"
        /\ last'.op = "mediaGranted"
        /\ calls[k].pc = "media"
        /\ calls'[k].pc # "media")
       => /\ calls'[k].stream # "live"
          /\ localStream' = 0
          /\ calls'[k].timer # "armed"
          /\ calls'[k].peer = "none"
          /\ rtc'.peer = 0
          /\ sent' = <<>>
          /\ callState' = "idle"]_vars
\* C21 (reject failure handling): when the publish of the Reject sent by
\* rejectCall fails while ringing, callState is still driven to 'idle' and
\* the pending incoming call is cleared.
C21_RejectFailure ==
  [][(/\ last'.op = "sendFail"
      /\ last'.arg \in {"user", "timer"}
      /\ callState = "ringing")
       => /\ callState' = "idle"
          /\ incomingCall' = None]_vars
\* C22 (one history entry per call): every call attempt that was started or
\* answered has exactly one history entry, and a rejectCall that is repeated
\* for the same pending incoming call after its Reject failed to publish adds
\* no second entry.
C22_OneEntryPerCall ==
  [][/\ \A k \in CallIdx :
          calls'[k].kind # "none" => EntryCount(history', calls'[k].entryId) = 1
     /\ (/\ last.op = "sendFail"
         /\ last.arg \in {"user", "timer"}
         /\ last'.op = "rejectCall"
         /\ incomingCall # None
         /\ incomingCall' = incomingCall)
          => history' = history]_vars
\* the step runs a callback of call k that updates the history: onConnect,
\* onClose, onError, the connection timer or the catch block
UpdatesFor(k) ==
  \/ last'.op = "connect" /\ ~calls[k].connected /\ calls'[k].connected
  \/ /\ last'.op \in {"close", "error"}
     /\ microtasks # <<>>
     /\ Head(microtasks).k = k
  \/ calls[k].timer = "armed" /\ calls'[k].timer = "fired"
  \/ last'.op = "mediaDenied" /\ calls[k].pc = "media" /\ calls'[k].pc = "done"

\* C23 (id-keyed history mutation): a history update made by a callback of
\* a call changes no entry other than the one created for that call.
C23_IdKeyedUpdate ==
  [][\A k \in CallIdx :
       UpdatesFor(k) =>
         /\ Ids(history') = Ids(history)
         /\ \A i \in 1..Len(history) :
              history[i].id # calls[k].entryId => history'[i] = history[i]]_vars
SigClean(s) ==
  /\ s.sig.currentCallId = 0
  /\ s.sig.unsubscribeSignaling = 0

\* C24 (coordinator hangup): SignalingCoordinator.hangup with an active
\* CallId sends one Hangup carrying that CallId and, once it is published,
\* leaves the coordinator with no CallId and no subscription handle; with no
\* active CallId nothing is sent and the coordinator is unchanged; and when
\* the hangup of the session has finished, whether the publish succeeded or
\* failed, the coordinator is clean and callState is 'idle'.
C24_CoordinatorHangup ==
  [][/\ SigClean(sigHangup(Cur, TRUE))
     /\ sig.unsubscribeSignaling # 0 =>
          sigHangup(Cur, TRUE).calls[sig.unsubscribeSignaling].sub = "aborted"
     /\ (last'.op = "hangup" /\ last'.arg = "send")
          => /\ sig.currentCallId # 0
             /\ Len(pendingSend') = Len(pendingSend) + 1
             /\ pendingSend'[Len(pendingSend')].op = "hangup"
             /\ pendingSend'[Len(pendingSend')].callId = sig.currentCallId
     /\ (last'.op = "hangup" /\ last'.arg = "cleanup")
          => /\ sent' = <<>>
             /\ pendingSend' = pendingSend
             /\ sig.currentCallId = 0 => sig' = sig
     /\ \A i \in 1..Len(pendingSend) :
          (/\ last'.op \in {"sendOk", "sendFail"}
           /\ last'.arg = "hangup"
           /\ pendingSend[i].op = "hangup"
           /\ pendingSend' = Remove(pendingSend, i))
          => /\ sent' = IF last'.op = "sendOk"
                          THEN <<Msg("call-hangup", pendingSend[i].callId,
                                     pendingSend[i].to, "none")>>
                          ELSE <<>>
             /\ SigClean([sig |-> sig'])
             /\ callState' = "idle"]_vars

\* the hangup of a session finished although its Hangup failed to publish
C24_Witness ==
  /\ last = Op("sendFail", "hangup")
  /\ SigClean(Cur)
  /\ callState = "idle"
  /\ \E k \in CallIdx : calls[k].sub = "aborted"
\* C25 (coordinator rejectCall): the Reject that rejectCall sends is one
\* message carrying the CallId it was given, whether or not a call is active,
\* and neither starting the send nor its settlement changes currentCallId,
\* the subscription handle, the subscriptions or the peer connection.
C25_CoordinatorReject ==
  [][/\ last'.op = "rejectCall"
          => /\ incomingCall # None
             /\ Len(pendingSend') = Len(pendingSend) + 1
             /\ pendingSend'[Len(pendingSend')].op = "reject"
             /\ pendingSend'[Len(pendingSend')].callId = Val(incomingCall).callId
             /\ pendingSend'[Len(pendingSend')].to = Val(incomingCall).remotePubkey
             /\ <<sig, subscriptions, rtc, calls>>' = <<sig, subscriptions, rtc, calls>>
     /\ \A i \in 1..Len(pendingSend) :
          (/\ last'.op \in {"sendOk", "sendFail"}
           /\ pendingSend[i].op = "reject"
           /\ pendingSend' = Remove(pendingSend, i))
          => /\ sent' = IF last'.op = "sendOk"
                          THEN <<Msg("call-reject", pendingSend[i].callId,
                                     pendingSend[i].to, "none")>>
                          ELSE <<>>
             /\ <<sig, subscriptions, rtc, calls>>' = <<sig, subscriptions, rtc, calls>>]_vars

\* a Reject was sent while an outgoing call was active, and the call's
\* CallId, subscription and peer are still in place
C25_Witness ==
  /\ last = Op("sendOk", "user")
  /\ sig.currentCallId # 0
  /\ sig.unsubscribeSignaling # 0
  /\ rtc.peer # 0
  /\ calls[rtc.peer].peer = "live"
\* C26 (no active call): while the coordinator has no active CallId,
\* handleSignalingMessage leaves the whole state as it was for a message of
\* any type and any CallId.
C26_NoActiveCall ==
  sig.currentCallId = 0 =>
    \A type \in MsgTypes, callId \in AllCallIds :
      handleSignalingMessage(Cur, [type |-> type, callId |-> callId]) = Cur

\* a message reached the handler while an unanswered Offer was ringing and
\* no CallId was active
C26_Witness ==
  /\ last = Op("deliver", "inactive")
  /\ callState = "ringing"
  /\ incomingCall # None
  /\ sig.currentCallId = 0
\* C27 (coordinator state after remote termination): after
\* handleSignalingMessage has handled a Hangup or a Reject carrying the
\* active CallId, the coordinator has no CallId and no subscription handle,
\* the subscription of the call is cancelled, and a later message of any type
\* for that CallId changes nothing.
C27_AfterRemoteTermination ==
  sig.currentCallId # 0 =>
    \A type \in {"call-hangup", "call-reject"} :
      LET s1 == handleSignalingMessage(Cur, [type |-> type,
                                             callId |-> sig.currentCallId])
      IN /\ SigClean(s1)
         /\ sig.unsubscribeSignaling # 0 =>
              /\ s1.calls[sig.unsubscribeSignaling].sub = "aborted"
              /\ sig.unsubscribeSignaling \notin s1.subscriptions.live
         /\ \A later \in MsgTypes :
              handleSignalingMessage(s1, [type |-> later,
                                          callId |-> sig.currentCallId]) = s1

\* a message was discarded after a remote Hangup or Reject had ended the
\* coordinator's call while the peer was still alive
C27_Witness ==
  /\ last = Op("deliver", "inactive")
  /\ sig.currentCallId = 0
  /\ rtc.peer # 0
  /\ calls[rtc.peer].peer = "live"
  /\ calls[rtc.peer].sub = "aborted"

\* C28: every signal a live connection generates is handed to the transport
\* as at most one message, addressed to the remote party of the call that
\* created the connection and carrying that call's CallId. The first signal
\* of an initiator goes out as call-offer, the first signal of an answerer as
\* call-answer, and every later signal of either side as ice-candidate; the
\* mapping itself sends type 'offer' as call-offer, 'answer' as call-answer
\* and anything else as ice-candidate.
C28_SignalMapping ==
  [][last'.op = "signal" =>
       /\ \A r \in Identities, c \in AllCallIds :
            /\ SignalMessage(r, c, "offer").type = "call-offer"
            /\ SignalMessage(r, c, "answer").type = "call-answer"
            /\ SignalMessage(r, c, "candidate").type = "ice-candidate"
            /\ \A st \in {"offer", "answer", "candidate"} :
                 /\ SignalMessage(r, c, st).callId = c
                 /\ SignalMessage(r, c, st).to = r
       /\ Len(sent') <= 1
       /\ \E k \in CallIdx :
            /\ calls[k].peer = "live"
            /\ calls'[k].emitted = calls[k].emitted + 1
            /\ sent' # <<>> =>
                 /\ sent'[1].callId = calls[k].callId
                 /\ sent'[1].to = calls[k].remote
                 /\ sent'[1].type =
                      IF calls[k].emitted > 0 THEN "ice-candidate"
                      ELSE IF calls[k].kind = "out" THEN "call-offer"
                      ELSE "call-answer"]_vars

\* an initiator's second signal has just been published as ice-candidate
\* with the CallId of its call
C28_Witness ==
  /\ last.op = "signal"
  /\ sent # <<>>
  /\ sent[1].type = "ice-candidate"
  /\ \E k \in CallIdx :
       /\ calls[k].kind = "out"
       /\ calls[k].peer = "live"
       /\ calls[k].emitted = 2
       /\ sent[1].callId = calls[k].callId

\* C29: when the signer of the local identity has no NIP-44 capability, a
\* call of sendSignalingMessage fails, and it signs no event and publishes
\* no event; such a service never has a signed or published event at all.
C29_NoEncryptionCapability ==
  [][last'.op = "send" /\ ~nostr.nip44 =>
       /\ nostr'.outcome = "error"
       /\ nostr'.signed = <<>>
       /\ nostr'.published = <<>>]_vars

\* two sends by an identity without NIP-44, the second to a hex recipient
C29_Witness ==
  /\ last = Op("send", "peerA")
  /\ ~nostr.nip44
  /\ nostr.sends = 2
  /\ nostr.outcome = "error"

\* an event of the per-peer feed that can be handed to the subscriber
ValidEvent(e) ==
  e.cipher = "good" /\ e.json = "object" /\ e.type # "" /\ e.callId # 0

\* C30: an event of the per-peer feed that does not decrypt, is not valid
\* JSON, or lacks 'type' or 'callId' is dropped: onMessage receives nothing
\* for it, the loop keeps running, and a valid event that follows (the signer
\* being able to decrypt) is handed to onMessage.
C30_LenientFeed ==
  [][last'.op = "feed" =>
       LET e == Val(nostr'.event)
       IN /\ nostr'.loop = "running"
          /\ ~ValidEvent(e) => nostr'.delivered = nostr.delivered
          /\ ValidEvent(e) /\ nostr.nip44 =>
               nostr'.delivered = Append(nostr.delivered, Received(e))]_vars

\* a valid message handed to onMessage after an earlier event was dropped
C30_Witness ==
  /\ last.op = "feed"
  /\ nostr.events = 2
  /\ nostr.loop = "running"
  /\ ValidEvent(Val(nostr.event))
  /\ Len(nostr.delivered) = 1

\* C31: the inbound-offer feed hands a record to onCallOffer only if the
\* event decrypts, its JSON is an object with both 'type' and 'callId', and
\* its type is call-offer.
C31_InboundOfferFeed ==
  [][last'.op = "incoming" /\ nostr'.offers # nostr.offers =>
       LET e == Val(nostr'.event)
       IN /\ ValidEvent(e)
          /\ e.type = "call-offer"]_vars

\* C32: at most one peer connection is live, and it is the one the
\* WebRTCManager holds (createPeer destroyed the one before it); without a
\* connection, handing an Answer or IceCandidate to signal() changes nothing.
C32_SingleConnection ==
  /\ Cardinality({k \in CallIdx : calls[k].peer = "live"}) <= 1
  /\ \A k \in CallIdx : calls[k].peer = "live" => rtc.peer = k
  /\ ~CanSignal(Cur) =>
       \A t \in {"call-answer", "ice-candidate"}, c \in AllCallIds :
         handleSignalingMessage(Cur, [type |-> t, callId |-> c]) = Cur

\* createPeer has just replaced a live connection: the old one is being
\* destroyed, the new one is live and held by the manager
C32_Witness ==
  \E j \in CallIdx, k \in CallIdx :
    /\ j # k
    /\ rtc.peer = k
    /\ calls[k].peer = "live"
    /\ calls[j].peer = "destroying"

\* C33: when applying an Answer or IceCandidate with the active CallId fails
\* inside the handler, nothing is torn down: the active CallId, the
\* subscription handle, the subscriptions, the connection and the call
\* state stay as they were, and the next Answer or IceCandidate with the
\* active CallId is applied to the connection.
C33_FaultAbsorption ==
  [][/\ last' = Op("deliver", "fault") =>
          /\ sig' = sig
          /\ subscriptions' = subscriptions
          /\ rtc' = rtc
          /\ calls' = calls
          /\ callState' = callState
          /\ currentSession' = currentSession
          /\ microtasks' = microtasks
     /\ (/\ last = Op("deliver", "fault")
         /\ last'.op = "deliver"
         /\ last'.arg \in {"call-answer", "ice-candidate"}) =>
          calls'[rtc.peer].applied =
            Append(calls[rtc.peer].applied, SignalKind(last'.arg))]_vars

\* a faulty Answer or IceCandidate was just handled during an outgoing call
\* whose connection and subscription are live
C33_Witness ==
  /\ last = Op("deliver", "fault")
  /\ callState = "calling"
  /\ sig.currentCallId # 0
  /\ sig.unsubscribeSignaling # 0
  /\ calls[rtc.peer].peer = "live"
  /\ calls[rtc.peer].sub = "live"

\* C34: a session in state 'calling' has no start time and a session in
\* state 'connected' has one; the start time is the time of the connect
\* callback that wrote it, and no later write to the session of the same
\* call changes it.
C34_StartTimestamp ==
  [][/\ currentSession' # None =>
          /\ Val(currentSession').state = "calling" =>
               Val(currentSession').startTime = -1
          /\ Val(currentSession').state = "connected" =>
               Val(currentSession').startTime >= 0
     /\ (last'.op = "connect" /\ currentSession' # None) =>
          /\ Val(currentSession').state = "connected"
          /\ Val(currentSession').startTime = now
     /\ (/\ currentSession # None
         /\ Val(currentSession).state = "connected"
         /\ currentSession' # None
         /\ Val(currentSession').callId = Val(currentSession).callId) =>
          Val(currentSession') = Val(currentSession)]_vars

\* C35: the pending incoming-call descriptor is set exactly when callState
\* is 'ringing'.
C35_IncomingDescriptor ==
  (incomingCall # None) <=> (callState = "ringing")

\* C36: when the 'close' event of a connection that createPeer destroyed to
\* make room for a new outgoing call is handled, the new call stays as it
\* is: the active CallId is the new call's, its connection and local stream
\* are still live and held by the manager, and callState is unchanged.
C36_CallOverActive ==
  [][(/\ last'.op = "close"
      /\ microtasks # <<>>
      /\ Head(microtasks).task = "close"
      /\ rtc.peer # 0
      /\ rtc.peer # Head(microtasks).k
      /\ calls[rtc.peer].kind = "out"
      /\ calls[rtc.peer].peer = "live")
       => /\ sig.currentCallId = calls[rtc.peer].callId
          /\ sig'.currentCallId = sig.currentCallId
          /\ rtc'.peer = rtc.peer
          /\ calls'[rtc.peer].peer = "live"
          /\ rtc'.localStream = rtc.peer
          /\ calls'[rtc.peer].stream = "live"
          /\ callState' = callState]_vars

\* C37: the only per-peer subscription that can be live is the one whose
\* handle the coordinator holds: never two at once, none when the
\* coordinator holds no handle (after cleanup), and no live subscription
\* whose handle has been overwritten.
C37_NoLeakedSubscription ==
  /\ Cardinality(subscriptions.live) <= 1
  /\ \A k \in subscriptions.live : sig.unsubscribeSignaling = k

\* C38: whenever the handler can run and a CallId is active, the
\* WebRTCManager holds a live connection, so an Answer or IceCandidate with
\* the active CallId is applied to it; every such message that is delivered
\* is appended to what the connection has been given.
C38_ConnectionExists ==
  [][/\ (Idle /\ sig.currentCallId # 0) =>
          /\ CanSignal(Cur)
          /\ calls[rtc.peer].peer = "live"
     /\ (last'.op = "deliver" /\ last'.arg \in {"call-answer", "ice-candidate"}) =>
          /\ rtc.peer # 0
          /\ calls'[rtc.peer].applied =
               Append(calls[rtc.peer].applied, SignalKind(last'.arg))]_vars

\* the Answer with the CallId of the second of two outgoing calls has just
\* been applied to that call's connection
C38_Witness ==
  /\ last = Op("deliver", "call-answer")
  /\ rtc.peer = 2
  /\ calls[2].kind = "out"
  /\ calls[2].peer = "live"
  /\ calls[2].applied = <<"answer">>
  /\ sig.currentCallId = calls[2].callId

\* C39: once a history entry has a terminal status (completed, failed or
\* rejected), its status, end time and duration never change again.
C39_TerminalStatusStable ==
  [][\A i \in 1..Len(history) :
       (/\ history[i].status \in {"completed", "failed", "rejected"}
        /\ HasEntry(history', history[i].id)) =>
         LET e == EntryById(history', history[i].id)
         IN /\ e.status = history[i].status
            /\ e.endTime = history[i].endTime
            /\ e.duration = history[i].duration]_vars

====
